---- MODULE Spec2Model ----
(***************************************************************************)
(* The SCN codec of yuzuscn (src/src/yuzuscn/models): a generic value tree *)
(* is decoded into typed records (model_validate) and encoded back         *)
(* (model_dump, by_alias=True as Scn.model_dump sets it).                  *)
(*                                                                         *)
(* A value is a record [k, i, s, a]:                                       *)
(*   k = "null" | "bool" | "int" | "float" | "str" | "arr" | "obj"         *)
(*   an object's a is its sequence of "kv" entries, in insertion order;    *)
(*   k = "inst" is a model instance of class s, a = its fields (kv, i = 0) *)
(*   in declaration order followed by its extra fields (kv, i = 1).        *)
(* Python's None is Null, also for a field that the input did not carry.   *)
(***************************************************************************)
EXTENDS Integers, Sequences, FiniteSets, TLC

VARIABLES entry, input, decoded, output, pc

vars == <<entry, input, decoded, output, pc>>

-----------------------------------------------------------------------------
(* Values *)

Null == [k |-> "null", i |-> 0, s |-> "", a |-> <<>>]
Num(n) == [k |-> "int", i |-> n, s |-> "", a |-> <<>>]
Bool(b) == [k |-> "bool", i |-> IF b THEN 1 ELSE 0, s |-> "", a |-> <<>>]
Float(n, frac) == [k |-> "float", i |-> n, s |-> frac, a |-> <<>>]
Str(t) == [k |-> "str", i |-> 0, s |-> t, a |-> <<>>]
Arr(seq) == [k |-> "arr", i |-> 0, s |-> "", a |-> seq]
KV(key, val) == [k |-> "kv", i |-> 0, s |-> key, a |-> <<val>>]
XKV(key, val) == [k |-> "kv", i |-> 1, s |-> key, a |-> <<val>>]
Obj(entries) == [k |-> "obj", i |-> 0, s |-> "", a |-> entries]
Inst(cls, entries) == [k |-> "inst", i |-> 0, s |-> cls, a |-> entries]

IsList(v) == v.k = "arr"
IsDict(v) == v.k = "obj"
IsStr(v) == v.k = "str"
\* isinstance(x, int) is true of a bool too
IsInstanceInt(v) == v.k \in {"int", "bool"}

Range(seq) == {seq[j] : j \in 1..Len(seq)}
Keys(o) == {o.a[j].s : j \in 1..Len(o.a)}
HasKey(o, key) == \E j \in 1..Len(o.a) : o.a[j].s = key
Get(o, key) == o.a[CHOOSE j \in 1..Len(o.a) : o.a[j].s = key].a[1]
GetOr(o, key, dflt) == IF HasKey(o, key) THEN Get(o, key) ELSE dflt
Tail1(seq) == SubSeq(seq, 2, Len(seq))
\* dict equality of Python: same keys, same values, whatever the order
RECURSIVE SameValue(_, _)
SameValue(v, w) ==
    IF v.k # w.k THEN FALSE
    ELSE IF v.k = "arr"
    THEN /\ Len(v.a) = Len(w.a)
         /\ \A j \in 1..Len(v.a) : SameValue(v.a[j], w.a[j])
    ELSE IF v.k = "obj"
    THEN /\ Len(v.a) = Len(w.a)
         /\ Keys(v) = Keys(w)
         /\ \A key \in Keys(v) : SameValue(Get(v, key), Get(w, key))
    ELSE v = w

-----------------------------------------------------------------------------
(* Results of a validation: the value, how exactly the input matched       *)
(* (Lax < Strict < Exact) and how many model fields the input set (-1:     *)
(* none counted), which is what a smart-mode union compares.  fatal: an    *)
(* exception that is no ValueError left a validator.                       *)

Lax == 0
Strict == 1
Exact == 2

Ok(v, ex, cnt) == [ok |-> TRUE, fatal |-> FALSE, v |-> v, ex |-> ex, cnt |-> cnt]
Fail == [ok |-> FALSE, fatal |-> FALSE, v |-> Null, ex |-> Lax, cnt |-> -1]
Raise == [ok |-> FALSE, fatal |-> TRUE, v |-> Null, ex |-> Lax, cnt |-> -1]

Min(x, y) == IF x < y THEN x ELSE y
AddCnt(c, d) == IF c = -1 /\ d = -1 THEN -1
                ELSE (IF c = -1 THEN 0 ELSE c) + (IF d = -1 THEN 0 ELSE d)
Floor(r, ex) == IF r.ok THEN [r EXCEPT !.ex = Min(r.ex, ex)] ELSE r

\* the strings int() parses, and their values
IntStrs == <<"0", "1", "2", "3">>
IsIntStr(t) == \E n \in 1..Len(IntStrs) : IntStrs[n] = t
ParseInt(t) == (CHOOSE n \in 1..Len(IntStrs) : IntStrs[n] = t) - 1

ValidateInt(v) ==
    CASE v.k = "int" -> Ok(v, Exact, -1)
      [] v.k = "bool" -> Ok(Num(v.i), Lax, -1)
      [] v.k = "float" /\ v.s = "" -> Ok(Num(v.i), Lax, -1)
      [] v.k = "str" /\ IsIntStr(v.s) -> Ok(Num(ParseInt(v.s)), Lax, -1)
      [] OTHER -> Fail

ValidateStr(v) == IF v.k = "str" THEN Ok(v, Exact, -1) ELSE Fail

ValidateBool(v) ==
    CASE v.k = "bool" -> Ok(v, Exact, -1)
      [] v.k = "int" /\ v.i \in {0, 1} -> Ok(Bool(v.i = 1), Lax, -1)
      [] v.k = "float" /\ v.s = "" /\ v.i \in {0, 1} -> Ok(Bool(v.i = 1), Lax, -1)
      [] v.k = "str" /\ v.s \in {"0", "1", "true", "false"}
           -> Ok(Bool(v.s \in {"1", "true"}), Lax, -1)
      [] OTHER -> Fail

-----------------------------------------------------------------------------
(* Field types *)

TInt == [c |-> "int"]
TStr == [c |-> "str"]
TBool == [c |-> "bool"]
TAny == [c |-> "any"]
TLit(set) == [c |-> "lit", set |-> set]
TOpt(t) == [c |-> "opt", of |-> <<t>>]
TList(t) == [c |-> "list", of |-> <<t>>]
TDict(t) == [c |-> "dict", of |-> <<t>>]
TModel(cls) == [c |-> "model", s |-> cls]
TUnion(ts) == [c |-> "union", of |-> ts]

KeyValuePair == TList(TAny)
Language == TLit({"en", "cn", "tw"})

F(name, alias, ty, req, dflt) ==
    [name |-> name, alias |-> alias, ty |-> ty, req |-> req, dflt |-> dflt]
Req(name, ty) == F(name, name, ty, TRUE, Null)
Opt(name, ty) == F(name, name, ty, FALSE, Null)

-----------------------------------------------------------------------------
(* The declared fields of every model class, in declaration order *)

Details(lit, redrawReq, withHideact, withLink, withTrans) ==
    <<Opt("action", TOpt(TList(KeyValuePair)))>>
    \o (IF withHideact THEN <<Opt("hideact", TOpt(TList(KeyValuePair)))>> ELSE <<>>)
    \o <<F("class_name", "class", TLit({lit}), TRUE, Null)>>
    \o (IF withLink THEN <<F("link", "link", TOpt(TStr), FALSE, Str(""))>> ELSE <<>>)
    \o <<Req("name", TStr)>>
    \o <<IF redrawReq THEN Req("redraw", TModel("Redraw"))
         ELSE Opt("redraw", TOpt(TModel("Redraw")))>>
    \o <<Req("showmode", TInt)>>
    \o (IF withTrans THEN <<Opt("trans", TOpt(TModel("Transform")))>> ELSE <<>>)
    \o <<Opt("type", TOpt(TAny))>>

Fields(cls) ==
    CASE cls = "Replay" ->
           <<Opt("filename", TOpt(TStr)), Opt("loop", TOpt(TInt)), Opt("start", TOpt(TAny)),
             Opt("state", TOpt(TInt)), Opt("volume", TOpt(TInt))>>
      [] cls = "Update" -> <<Opt("state", TOpt(TInt))>>
      [] cls = "Transform" ->
           <<Opt("method", TOpt(TStr)), Opt("msgoff", TOpt(TBool)), Opt("rule", TOpt(TStr)),
             Req("time", TInt)>>
      [] cls = "ImageFileOptions" ->
           <<Opt("dress", TOpt(TStr)), Opt("face", TOpt(TStr)), Opt("pose", TOpt(TStr)),
             Opt("center", TOpt(TInt))>>
      [] cls = "ImageFileDetails" ->
           <<Req("file", TStr), Opt("options", TOpt(TModel("ImageFileOptions"))),
             Opt("redraw", TOpt(TList(TList(TAny))))>>
      [] cls = "Redraw" ->
           <<Req("disp", TInt), Req("imageFile", TModel("ImageFileDetails")),
             Opt("posName", TOpt(TStr))>>
      [] cls = "BgmDetails" ->
           <<Req("name", TStr), Req("replay", TModel("Replay")),
             Req("update", TModel("Update"))>>
      [] cls = "LoopSEDetails" ->
           <<Opt("action", TOpt(TList(KeyValuePair))), Req("name", TStr),
             Req("replay", TModel("Replay")), Opt("trans", TOpt(TModel("Transform"))),
             Req("update", TModel("Update"))>>
      [] cls = "StageDetails" -> Details("stage", TRUE, FALSE, TRUE, TRUE)
      [] cls = "CharacterDetails" -> Details("character", FALSE, TRUE, TRUE, TRUE)
      [] cls = "MsgwinDetails" -> Details("msgwin", FALSE, TRUE, TRUE, FALSE)
      [] cls = "EventDetails" -> Details("event", FALSE, FALSE, FALSE, FALSE)
      [] cls = "Event2Details" -> Details("event2", FALSE, FALSE, FALSE, FALSE)
      [] cls = "CenterlayerDetails" -> Details("centerlayer", TRUE, FALSE, TRUE, FALSE)
      [] cls = "SEDetails" -> <<Req("name", TStr)>>
      [] cls = "FixCaptionDetails" ->
           <<Opt("action", TOpt(TList(TOpt(KeyValuePair)))),
             F("class_name", "class", TLit({"fixcaption"}), TRUE, Null),
             F("link", "link", TOpt(TStr), FALSE, Str("")), Req("name", TStr),
             Opt("redraw", TOpt(TModel("Redraw"))), Req("showmode", TInt),
             Opt("type", TOpt(TAny))>>
      [] cls = "DataItem" ->
           <<Req("name", TStr), F("class_name", "class", TStr, TRUE, Null),
             Req("details", TModel("DataItemDetails"))>>
      [] cls = "ShowDate" ->
           <<Opt("back", TOpt(TAny)), Opt("date", TOpt(TStr)), Opt("fore", TOpt(TAny)),
             Opt("nowShow", TOpt(TInt))>>
      [] cls = "Env" -> <<Req("name", TStr), Opt("action", TOpt(TList(TOpt(TStr))))>>
      [] cls = "SnapshotPoint" ->
           <<F("meswinchange", "_meswinchange", TOpt(TStr), FALSE, Null),
             Req("data", TList(TModel("DataItem"))), Req("env", TModel("Env")),
             Req("phonechat_showing", TOpt(TInt)), Opt("scnchart", TOpt(TStr)),
             Opt("showdate", TOpt(TModel("ShowDate")))>>
      [] cls = "InitInstruction" -> <<Req("action", TLit({"init"})), Req("status", TInt)>>
      [] cls = "NewInstruction" ->
           <<Req("action", TLit({"new"})), Req("name", TStr),
             F("class_name", "class", TStr, TRUE, Null)>>
      [] cls = "DeleteInstruction" -> <<Req("action", TLit({"del"})), Req("name", TStr)>>
      [] cls = "RenameInstruction" ->
           <<Req("action", TLit({"ren"})), Req("name", TStr),
             F("new_name", "new", TStr, TRUE, Null)>>
      [] cls = "WaitEntry" -> <<Req("mode", TInt), Req("name", TStr)>>
      [] cls = "Wait" -> <<Req("list", TList(TOpt(TModel("WaitEntry"))))>>
      [] cls = "StartlineEvent" ->
           <<Opt("vflag", TOpt(TInt)), Opt("name", TOpt(TStr)), Opt("text", TOpt(TInt))>>
      [] cls = "EnvUpdateEvent" ->
           <<Opt("pretrans", TOpt(TList(TModel("Instruction")))),
             Req("update", TList(TUnion(<<TModel("Instruction"), TModel("DataItemDetails")>>))),
             Opt("revpretrans", TOpt(TList(TModel("Instruction")))),
             Opt("revupdate",
                 TOpt(TList(TUnion(<<TModel("Instruction"), TModel("DataItemDetails")>>)))),
             Opt("wait", TOpt(TModel("Wait"))), Opt("trans", TOpt(TModel("Transform"))),
             Opt("msgoff", TOpt(TInt))>>
      [] cls = "DelayRunEvent" ->
           <<Req("label", TStr), Req("delay_event_type", TStr),
             Req("update", TList(TModel("DataItemDetails"))),
             Req("revupdate", TList(TModel("DataItemDetails"))),
             Opt("trans", TOpt(TModel("Transform")))>>
      [] cls = "WaitEvent" -> <<Req("time", TInt)>>
      [] cls = "ScnChartEvent" -> <<Req("action", TStr), Req("name", TStr)>>
      [] cls = "VoiceEffectEvent" -> <<Req("action", TStr), Req("status", TStr)>>
      [] cls = "ChapterEvent" -> <<Req("values", TList(TAny))>>
      [] cls = "MsgOffEvent" -> <<Req("event_type", TLit({"msgoff"}))>>
      [] cls = "MesWinChangeEvent" -> <<Req("type", TStr)>>
      [] cls = "QuickMenuEvent" -> <<Req("action", TStr), Req("status", TStr)>>
      [] cls = "ErEvent" -> <<Req("values", TList(TAny))>>
      [] cls = "EndRecollectionEvent" -> <<Req("type", TLit({"endrecollection"}))>>
      [] cls = "PlayVoiceEvent" ->
           <<Req("loop", TInt), Req("name", TStr), Req("type", TInt), Req("voice", TStr)>>
      [] cls = "StopVoiceEvent" -> <<Req("name", TStr), Req("type", TInt)>>
      [] cls = "ExitEvent" -> <<Req("storage", TStr), Req("target", TStr), Req("eval", TStr)>>
      [] cls = "BeginSkipEvent" -> <<Req("type", TLit({"beginskip"}))>>
      [] cls = "EndSkipEvent" -> <<Req("type", TLit({"endskip"}))>>
      [] cls = "SysVoiceEvent" ->
           <<Req("eyecatch", TStr), Req("name", TStr), Req("chara", TStr)>>
      [] cls = "SnapshotPointLine" ->
           <<Req("index", TInt),
             Req("text_index_a", TUnion(<<TInt, TModel("SnapshotPoint")>>)),
             Req("text_index_b", TOpt(TInt)), Req("flag", TOpt(TInt)),
             Req("original_line", TInt), Req("voice_tag", TOpt(TInt)),
             Opt("unused_a", TOpt(TAny)), Opt("unused_b", TOpt(TAny))>>
      [] cls = "Dialogue" ->
           <<Opt("display_name", TOpt(TStr)), Req("content", TStr), Req("length", TOpt(TInt))>>
      [] cls = "VoiceData" ->
           <<Req("name", TStr), Req("pan", TInt), Req("type", TInt), Req("voice", TStr)>>
      [] cls = "Text" ->
           <<Req("character", TOpt(TStr)), Req("dialogues", TList(TModel("Dialogue"))),
             Req("voices", TOpt(TList(TModel("VoiceData")))), Req("value", TInt),
             Req("snapshot_point", TModel("SnapshotPoint"))>>
      [] cls = "Next" -> <<Req("storage", TStr), Req("target", TStr), Req("type", TInt)>>
      [] cls = "Scene" ->
           <<Req("firstLine", TInt), Opt("jumplabels", TOpt(TDict(TInt))), Req("label", TStr),
             Req("lines", TList(TModel("Line"))), Req("nexts", TList(TModel("Next"))),
             Opt("preevals", TOpt(TList(TUnion(<<KeyValuePair, TStr>>)))),
             Opt("postevals", TOpt(TList(TUnion(<<KeyValuePair, TStr>>)))),
             Req("spCount", TInt), Opt("texts", TOpt(TList(TModel("Text")))),
             Req("title", TUnion(<<TList(TStr), TStr>>)), Req("version", TInt)>>
      [] cls = "Scn" ->
           <<Req("hash", TStr), Req("languages", TList(Language)),
             Req("llmap", TList(TDict(TUnion(<<TStr, TList(TInt)>>)))), Req("name", TStr),
             Req("outlines", TList(TAny)), Req("scenes", TList(TModel("Scene")))>>

\* the root type of a RootModel
RootType(cls) ==
    CASE cls = "Instruction" ->
           TUnion(<<TModel("InitInstruction"), TModel("NewInstruction"),
                    TModel("DeleteInstruction"), TModel("RenameInstruction")>>)
      [] cls = "DataItemDetails" ->
           TUnion(<<TModel("BgmDetails"), TModel("LoopSEDetails"), TModel("StageDetails"),
                    TModel("CharacterDetails"), TModel("MsgwinDetails"), TModel("EventDetails"),
                    TModel("Event2Details"), TModel("CenterlayerDetails"), TModel("SEDetails"),
                    TModel("FixCaptionDetails"), TDict(TAny)>>)
      [] cls = "Event" ->
           TUnion(<<TModel("StartlineEvent"), TModel("EnvUpdateEvent"), TModel("DelayRunEvent"),
                    TModel("WaitEvent"), TModel("ScnChartEvent"), TModel("VoiceEffectEvent"),
                    TModel("ChapterEvent"), TModel("MsgOffEvent"), TModel("MesWinChangeEvent"),
                    TModel("QuickMenuEvent"), TModel("ErEvent"), TModel("EndRecollectionEvent"),
                    TModel("PlayVoiceEvent"), TModel("StopVoiceEvent"), TModel("ExitEvent"),
                    TModel("BeginSkipEvent"), TModel("EndSkipEvent"), TModel("SysVoiceEvent"),
                    TList(TAny)>>)
      [] cls = "Line" ->
           TUnion(<<TModel("SnapshotPointLine"), TModel("Event"), TInt, TStr>>)

RootModels == {"Instruction", "DataItemDetails", "Event", "Line"}

\* model_config: extra="allow" (the default drops unknown keys)
ExtraAllow ==
    {"Replay", "Update", "Transform", "ImageFileOptions", "ImageFileDetails", "Redraw",
     "BgmDetails", "LoopSEDetails", "StageDetails", "CharacterDetails", "MsgwinDetails",
     "EventDetails", "Event2Details", "CenterlayerDetails", "SEDetails", "DataItem",
     "ShowDate", "Env", "SnapshotPoint", "NewInstruction", "RenameInstruction"}

\* model_config: populate_by_name=True
PopulateByName ==
    {"StageDetails", "CharacterDetails", "MsgwinDetails", "EventDetails", "Event2Details",
     "CenterlayerDetails", "SnapshotPoint", "NewInstruction", "RenameInstruction"}

-----------------------------------------------------------------------------
(* Validation (model_validate) and serialization (model_dump) are mutually *)
(* recursive: a mode="before" validator calls model_validate of the        *)
(* classes below it.                                                       *)

RECURSIVE Validate(_, _), ValidateModel(_, _), ValidateItems(_, _, _, _)
RECURSIVE ValidateEntries(_, _, _, _), ValidateUnion(_, _, _, _)
RECURSIVE ValidateFields(_, _, _, _, _), Before(_, _)

Pass(data) == Ok(data, Exact, -1)

\* dict[key] = val: a new key goes last, a known key keeps its place
SetKey(entries, key, val) ==
    IF \E j \in 1..Len(entries) : entries[j].s = key
    THEN [j \in 1..Len(entries) |->
            IF entries[j].s = key THEN KV(key, val) ELSE entries[j]]
    ELSE Append(entries, KV(key, val))

IsHashable(v) == v.k \notin {"arr", "obj"}

instruction_map ==
    [init |-> "InitInstruction", new |-> "NewInstruction",
     del |-> "DeleteInstruction", ren |-> "RenameInstruction"]

event_map ==
    [startline |-> "StartlineEvent", envupdate |-> "EnvUpdateEvent",
     delayrun |-> "DelayRunEvent", wait |-> "WaitEvent", scnchart |-> "ScnChartEvent",
     voeff |-> "VoiceEffectEvent", chapter |-> "ChapterEvent", msgoff |-> "MsgOffEvent",
     _meswinchange |-> "MesWinChangeEvent", quickmenu |-> "QuickMenuEvent",
     er |-> "ErEvent", endrecollection |-> "EndRecollectionEvent",
     playvoice |-> "PlayVoiceEvent", stopvoice |-> "StopVoiceEvent", exit |-> "ExitEvent",
     beginskip |-> "BeginSkipEvent", endskip |-> "EndSkipEvent",
     sysvoice |-> "SysVoiceEvent"]

details_map ==
    [bgm |-> "BgmDetails", loopse |-> "LoopSEDetails", stage |-> "StageDetails",
     character |-> "CharacterDetails", msgwin |-> "MsgwinDetails", event |-> "EventDetails",
     event2 |-> "Event2Details", centerlayer |-> "CenterlayerDetails", se |-> "SEDetails",
     fixcaption |-> "FixCaptionDetails"]

\* key in map, for a hashable key
InMap(map, key) == key.k = "str" /\ key.s \in DOMAIN map

InitInstruction_parse_list(data) ==
    IF IsList(data)
    THEN IF Len(data.a) # 2 THEN Fail
         ELSE Pass(Obj(<<KV("action", data.a[1]), KV("status", data.a[2])>>))
    ELSE Pass(data)

NewInstruction_parse_list(data) ==
    IF IsList(data)
    THEN IF Len(data.a) # 3 THEN Fail
         ELSE Pass(Obj(<<KV("action", data.a[1]), KV("name", data.a[2]),
                         KV("class_name", data.a[3])>>))
    ELSE Pass(data)

DeleteInstruction_parse_list(data) ==
    IF IsList(data)
    THEN IF Len(data.a) # 2 THEN Fail
         ELSE Pass(Obj(<<KV("action", data.a[1]), KV("name", data.a[2])>>))
    ELSE Pass(data)

RenameInstruction_parse_list(data) ==
    IF IsList(data)
    THEN IF Len(data.a) # 3 THEN Fail
         ELSE Pass(Obj(<<KV("action", data.a[1]), KV("name", data.a[2]),
                         KV("new_name", data.a[3])>>))
    ELSE Pass(data)

\* instruction_map[item[0]](item)
InstructionCall(item) ==
    IF ~IsList(item) THEN Raise
    ELSE IF Len(item.a) = 0 THEN Raise
    ELSE IF ~InMap(instruction_map, item.a[1]) THEN Raise
    ELSE ValidateModel(instruction_map[item.a[1].s], item)

StartlineEvent_parse_list(data) ==
    IF IsList(data)
    THEN IF Len(data.a) \notin {1, 7} THEN Fail
         ELSE IF data.a[1] # Str("startline") THEN Fail
         ELSE IF Len(data.a) = 1 THEN Pass(Obj(<<>>))
         ELSE Pass(Obj(<<KV("vflag", data.a[3]), KV("name", data.a[5]),
                         KV("text", data.a[7])>>))
    ELSE Pass(data)

\* the list comprehensions of EnvUpdateEvent.parse_list: the first item that
\* raises ends the comprehension
RECURSIVE UpdateItems(_, _), TransItems(_, _)

\* the comprehension with a filter on the tag: an array of another tag is left out
RECURSIVE UpdateItems_skip_unknown(_, _)
UpdateItems_skip_unknown(items, acc) ==
    IF items = <<>> THEN Pass(Arr(acc))
    ELSE IF IsList(items[1]) /\ Len(items[1].a) > 0 /\ ~InMap(instruction_map, items[1].a[1])
    THEN UpdateItems_skip_unknown(Tail1(items), acc)
    ELSE LET r == IF IsList(items[1]) THEN InstructionCall(items[1])
                  ELSE ValidateModel("DataItemDetails", items[1])
         IN IF ~r.ok THEN r ELSE UpdateItems_skip_unknown(Tail1(items), Append(acc, r.v))

\* the instructions first and the objects after them
RECURSIVE UpdateItems_by_kind(_, _)
UpdateItems_by_kind(items, acc) ==
    IF items = <<>> THEN Pass(Arr(acc))
    ELSE LET r == IF IsList(items[1]) THEN InstructionCall(items[1])
                  ELSE ValidateModel("DataItemDetails", items[1])
         IN IF ~r.ok THEN r
            ELSE UpdateItems_by_kind(Tail1(items),
                                     IF IsList(items[1]) THEN <<r.v>> \o acc
                                     ELSE Append(acc, r.v))

UpdateItems(items, acc) ==
    IF items = <<>> THEN Pass(Arr(acc))
    ELSE LET r == IF IsList(items[1]) THEN InstructionCall(items[1])
                  ELSE ValidateModel("DataItemDetails", items[1])
         IN IF ~r.ok THEN r ELSE UpdateItems(Tail1(items), Append(acc, r.v))

TransItems(items, acc) ==
    IF items = <<>> THEN Pass(Arr(acc))
    ELSE LET r == InstructionCall(items[1])
         IN IF ~r.ok THEN r ELSE TransItems(Tail1(items), Append(acc, r.v))

RECURSIVE EnvUpdatePairs(_, _)
EnvUpdatePairs(rest, acc) ==
    IF rest = <<>> THEN Pass(Obj(acc))
    ELSE LET key == rest[1]
             value == rest[2]
             r == IF key \in {Str("update"), Str("revupdate")} /\ IsList(value)
                  THEN UpdateItems(value.a, <<>>)
                  ELSE IF key \in {Str("pretrans"), Str("revpretrans")} /\ IsList(value)
                  THEN TransItems(value.a, <<>>)
                  ELSE Pass(value)
         IN IF ~r.ok THEN r
            ELSE IF ~IsHashable(key) THEN Raise
            ELSE EnvUpdatePairs(SubSeq(rest, 3, Len(rest)),
                                IF IsStr(key) THEN SetKey(acc, key.s, r.v) ELSE acc)

EnvUpdateEvent_parse_list(data) ==
    IF IsList(data)
    THEN IF Len(data.a) < 2 THEN Fail
         ELSE IF data.a[1] # Str("envupdate") THEN Fail
         ELSE IF (Len(data.a) - 1) % 2 # 0 THEN Fail
         ELSE EnvUpdatePairs(Tail1(data.a), <<>>)
    ELSE Pass(data)

RECURSIVE DelayRunPairs(_, _)
DelayRunPairs(rest, acc) ==
    IF rest = <<>> THEN Pass(Obj(acc))
    ELSE IF ~IsHashable(rest[1]) THEN Raise
    ELSE DelayRunPairs(SubSeq(rest, 3, Len(rest)),
                       IF IsStr(rest[1]) THEN SetKey(acc, rest[1].s, rest[2]) ELSE acc)

DelayRunEvent_parse_list(data) ==
    IF IsList(data)
    THEN IF Len(data.a) \notin {7, 9} THEN Fail
         ELSE IF data.a[1] # Str("delayrun") THEN Fail
         ELSE DelayRunPairs(SubSeq(data.a, 4, Len(data.a)),
                            <<KV("label", data.a[2]), KV("delay_event_type", data.a[3])>>)
    ELSE Pass(data)

\* the events whose parse_list checks the length, then the tag, and reads
\* the fields at fixed positions (0-based in the source, 1-based here)
\* a parse_list that checks the tag and not the length
Positional_unchecked_length(data, lens, tag, names, at) ==
    IF IsList(data)
    THEN IF Len(data.a) = 0 \/ data.a[1] # Str(tag) THEN Fail
         ELSE Pass(Obj([j \in 1..Len(names) |->
                          KV(names[j], IF at[j] + 1 <= Len(data.a)
                                       THEN data.a[at[j] + 1] ELSE Null)]))
    ELSE Pass(data)

\* a positional parse_list, were the token before each value of a keyed
\* event compared with the name of the field
Positional_checked_keys(data, lens, tag, names, at) ==
    IF IsList(data)
    THEN IF Len(data.a) \notin lens THEN Fail
         ELSE IF data.a[1] # Str(tag) THEN Fail
         ELSE IF at[1] = 2 /\ \E j \in 1..Len(names) : data.a[at[j]] # Str(names[j])
         THEN Fail
         ELSE Pass(Obj([j \in 1..Len(names) |-> KV(names[j], data.a[at[j] + 1])]))
    ELSE Pass(data)

Positional(data, lens, tag, names, at) ==
    IF IsList(data)
    THEN IF Len(data.a) \notin lens THEN Fail
         ELSE IF data.a[1] # Str(tag) THEN Fail
         ELSE Pass(Obj([j \in 1..Len(names) |-> KV(names[j], data.a[at[j] + 1])]))
    ELSE Pass(data)

WaitEvent_parse_list(data) == Positional(data, {3}, "wait", <<"time">>, <<2>>)
ScnChartEvent_parse_list(data) ==
    Positional(data, {3}, "scnchart", <<"action", "name">>, <<1, 2>>)
VoiceEffectEvent_parse_list(data) ==
    Positional(data, {3}, "voeff", <<"action", "status">>, <<1, 2>>)
MsgOffEvent_parse_list(data) == Positional(data, {1}, "msgoff", <<"event_type">>, <<0>>)
MesWinChangeEvent_parse_list(data) ==
    Positional(data, {3}, "_meswinchange", <<"type">>, <<2>>)
QuickMenuEvent_parse_list(data) ==
    Positional(data, {3}, "quickmenu", <<"action", "status">>, <<1, 2>>)
EndRecollectionEvent_parse_list(data) ==
    Positional(data, {1}, "endrecollection", <<"type">>, <<0>>)
PlayVoiceEvent_parse_list(data) ==
    Positional(data, {9}, "playvoice", <<"loop", "name", "type", "voice">>, <<2, 4, 6, 8>>)
StopVoiceEvent_parse_list(data) ==
    Positional(data, {5}, "stopvoice", <<"name", "type">>, <<2, 4>>)
ExitEvent_parse_list(data) ==
    Positional(data, {7}, "exit", <<"storage", "target", "eval">>, <<2, 4, 6>>)
BeginSkipEvent_parse_list(data) == Positional(data, {1}, "beginskip", <<"type">>, <<0>>)
EndSkipEvent_parse_list(data) == Positional(data, {1}, "endskip", <<"type">>, <<0>>)
SysVoiceEvent_parse_list(data) ==
    Positional(data, {7}, "sysvoice", <<"eyecatch", "name", "chara">>, <<2, 4, 6>>)

\* chapter and er keep everything after the tag
Variadic(data, tag) ==
    IF IsList(data)
    THEN IF Len(data.a) < 2 THEN Fail
         ELSE IF data.a[1] # Str(tag) THEN Fail
         ELSE Pass(Obj(<<KV("values", Arr(Tail1(data.a)))>>))
    ELSE Pass(data)

ChapterEvent_parse_list(data) == Variadic(data, "chapter")
ErEvent_parse_list(data) == Variadic(data, "er")

\* Event.parse without the return for a tag that event_map does not hold
Event_parse_registered_only(data) ==
    IF IsList(data)
    THEN IF Len(data.a) < 1 THEN Fail
         ELSE IF ~IsHashable(data.a[1]) THEN Raise
         ELSE IF ~InMap(event_map, data.a[1]) THEN Fail
         ELSE ValidateModel(event_map[data.a[1].s], data)
    ELSE Pass(data)

Event_parse(data) ==
    IF IsList(data)
    THEN IF Len(data.a) < 1 THEN Fail
         ELSE IF ~IsHashable(data.a[1]) THEN Raise
         ELSE IF ~InMap(event_map, data.a[1]) THEN Pass(data)
         ELSE ValidateModel(event_map[data.a[1].s], data)
    ELSE Pass(data)

DataItem_validate_data_item(data) ==
    IF IsList(data)
    THEN IF Len(data.a) # 3 THEN Fail
         ELSE IF ~IsHashable(data.a[2]) THEN Raise
         ELSE LET r == IF ~InMap(details_map, data.a[2]) THEN Pass(data.a[3])
                       ELSE ValidateModel(details_map[data.a[2].s], data.a[3])
              IN IF ~r.ok THEN r
                 ELSE Pass(Obj(<<KV("name", data.a[1]), KV("class", data.a[2]),
                                 KV("details", r.v)>>))
    ELSE Pass(data)

SnapshotPointLine_keys ==
    <<"index", "text_index_a", "text_index_b", "flag", "original_line", "voice_tag",
      "unused_a", "unused_b">>

SnapshotPointLine_parse_list(data) ==
    IF IsList(data)
    THEN IF Len(data.a) \notin {5, 8} THEN Fail
         ELSE LET padded == data.a \o [j \in 1..(8 - Len(data.a)) |-> Null]
                  a == IF IsDict(padded[2]) THEN ValidateModel("SnapshotPoint", padded[2])
                       ELSE Pass(padded[2])
              IN IF ~a.ok THEN a
                 ELSE Pass(Obj([j \in 1..8 |->
                          KV(SnapshotPointLine_keys[j], IF j = 2 THEN a.v ELSE padded[j])]))
    ELSE Pass(data)

\* Line.parse_list, were every array given to the Event codec
Line_parse_list_events_only(data) ==
    IF IsList(data)
    THEN IF Len(data.a) = 0 THEN Fail
         ELSE ValidateModel("Event", data)
    ELSE Pass(data)

Line_parse_list(data) ==
    IF IsList(data)
    THEN IF Len(data.a) = 0 THEN Fail
         ELSE IF IsStr(data.a[1]) THEN ValidateModel("Event", data)
         ELSE IF IsInstanceInt(data.a[1]) THEN ValidateModel("SnapshotPointLine", data)
         ELSE Fail
    ELSE Pass(data)

Dialogue_parse_list(data) ==
    IF IsList(data)
    THEN IF Len(data.a) < 2 THEN Fail
         ELSE LET padded == data.a \o (IF Len(data.a) < 3 THEN <<Null>> ELSE <<>>)
              IN Pass(Obj(<<KV("display_name", padded[1]), KV("content", padded[2]),
                            KV("length", padded[3])>>))
    ELSE Pass(data)

Text_parse_list(data) ==
    IF IsList(data)
    THEN IF Len(data.a) # 5 THEN Fail
         ELSE Pass(Obj(<<KV("character", data.a[1]), KV("dialogues", data.a[2]),
                         KV("voices", data.a[3]), KV("value", data.a[4]),
                         KV("snapshot_point", data.a[5])>>))
    ELSE Pass(data)

-----------------------------------------------------------------------------
(* The validation of pydantic: types, models, smart-mode unions *)

\* the mode="before" validator of a class, if it has one
Before(cls, data) ==
    CASE cls = "InitInstruction" -> InitInstruction_parse_list(data)
      [] cls = "NewInstruction" -> NewInstruction_parse_list(data)
      [] cls = "DeleteInstruction" -> DeleteInstruction_parse_list(data)
      [] cls = "RenameInstruction" -> RenameInstruction_parse_list(data)
      [] cls = "StartlineEvent" -> StartlineEvent_parse_list(data)
      [] cls = "EnvUpdateEvent" -> EnvUpdateEvent_parse_list(data)
      [] cls = "DelayRunEvent" -> DelayRunEvent_parse_list(data)
      [] cls = "WaitEvent" -> WaitEvent_parse_list(data)
      [] cls = "ScnChartEvent" -> ScnChartEvent_parse_list(data)
      [] cls = "VoiceEffectEvent" -> VoiceEffectEvent_parse_list(data)
      [] cls = "ChapterEvent" -> ChapterEvent_parse_list(data)
      [] cls = "MsgOffEvent" -> MsgOffEvent_parse_list(data)
      [] cls = "MesWinChangeEvent" -> MesWinChangeEvent_parse_list(data)
      [] cls = "QuickMenuEvent" -> QuickMenuEvent_parse_list(data)
      [] cls = "ErEvent" -> ErEvent_parse_list(data)
      [] cls = "EndRecollectionEvent" -> EndRecollectionEvent_parse_list(data)
      [] cls = "PlayVoiceEvent" -> PlayVoiceEvent_parse_list(data)
      [] cls = "StopVoiceEvent" -> StopVoiceEvent_parse_list(data)
      [] cls = "ExitEvent" -> ExitEvent_parse_list(data)
      [] cls = "BeginSkipEvent" -> BeginSkipEvent_parse_list(data)
      [] cls = "EndSkipEvent" -> EndSkipEvent_parse_list(data)
      [] cls = "SysVoiceEvent" -> SysVoiceEvent_parse_list(data)
      [] cls = "Event" -> Event_parse(data)
      [] cls = "DataItem" -> DataItem_validate_data_item(data)
      [] cls = "SnapshotPointLine" -> SnapshotPointLine_parse_list(data)
      [] cls = "Line" -> Line_parse_list(data)
      [] cls = "Dialogue" -> Dialogue_parse_list(data)
      [] cls = "Text" -> Text_parse_list(data)
      [] OTHER -> Pass(data)

\* one result after another: validation errors are collected, a raised
\* exception ends the validation at once
Both(acc, r, v) ==
    [ok |-> acc.ok /\ r.ok, fatal |-> acc.fatal \/ r.fatal, v |-> v,
     ex |-> Min(acc.ex, r.ex), cnt |-> AddCnt(acc.cnt, r.cnt)]

\* List[ty]
ValidateItems(ty, items, j, acc) ==
    IF j > Len(items) THEN acc
    ELSE LET r == Validate(ty, items[j])
             nxt == Both(acc, r, Arr(Append(acc.v.a, r.v)))
         IN IF nxt.fatal THEN nxt ELSE ValidateItems(ty, items, j + 1, nxt)

\* Dict[str, ty]
ValidateEntries(ty, entries, j, acc) ==
    IF j > Len(entries) THEN acc
    ELSE LET r == Validate(ty, entries[j].a[1])
             nxt == Both(acc, r, Obj(Append(acc.v.a, KV(entries[j].s, r.v))))
         IN IF nxt.fatal THEN nxt ELSE ValidateEntries(ty, entries, j + 1, nxt)

\* of two members that validate, the one that set more fields, then the
\* more exact one, then the earlier one
Better(cur, new) ==
    IF cur.cnt # -1 /\ new.cnt # -1 /\ cur.cnt # new.cnt THEN cur.cnt < new.cnt
    ELSE cur.ex < new.ex

ValidateUnion(ts, j, v, best) ==
    IF j > Len(ts) THEN best
    ELSE LET r == Validate(ts[j], v)
         IN IF r.fatal THEN r
            ELSE IF ~r.ok THEN ValidateUnion(ts, j + 1, v, best)
            ELSE IF r.ex = Exact /\ r.cnt = -1 THEN r
            ELSE IF ~best.ok \/ Better(best, r) THEN ValidateUnion(ts, j + 1, v, r)
            ELSE ValidateUnion(ts, j + 1, v, best)

Validate(ty, v) ==
    CASE ty.c = "int" -> ValidateInt(v)
      [] ty.c = "str" -> ValidateStr(v)
      [] ty.c = "bool" -> ValidateBool(v)
      [] ty.c = "any" -> Ok(v, Strict, -1)
      [] ty.c = "lit" -> IF v.k = "str" /\ v.s \in ty.set THEN Ok(v, Exact, -1) ELSE Fail
      [] ty.c = "opt" -> IF v = Null THEN Ok(v, Exact, -1) ELSE Validate(ty.of[1], v)
      [] ty.c = "list" ->
           IF IsList(v) THEN ValidateItems(ty.of[1], v.a, 1, Pass(Arr(<<>>))) ELSE Fail
      [] ty.c = "dict" ->
           IF IsDict(v) THEN ValidateEntries(ty.of[1], v.a, 1, Pass(Obj(<<>>))) ELSE Fail
      [] ty.c = "model" -> ValidateModel(ty.s, v)
      [] ty.c = "union" -> ValidateUnion(ty.of, 1, v, Fail)

UsedKeys(cls) ==
    {Fields(cls)[j].alias : j \in 1..Len(Fields(cls))}
    \cup (IF cls \in PopulateByName
          THEN {Fields(cls)[j].name : j \in 1..Len(Fields(cls))} ELSE {})

Extras(cls, data) ==
    IF cls \in ExtraAllow
    THEN LET IsExtra(e) == e.s \notin UsedKeys(cls)
             x == SelectSeq(data.a, IsExtra)
         IN [j \in 1..Len(x) |-> XKV(x[j].s, x[j].a[1])]
    ELSE <<>>

\* the fields of a model from a dict: by alias, by name where the class
\* allows it, else the default, else an error
ValidateFields(cls, fs, j, data, acc) ==
    IF j > Len(fs) THEN acc
    ELSE LET f == fs[j]
             key == IF HasKey(data, f.alias) THEN f.alias
                    ELSE IF cls \in PopulateByName /\ HasKey(data, f.name) THEN f.name
                    ELSE ""
             r == IF key # "" THEN Validate(f.ty, Get(data, key))
                  ELSE IF f.req THEN Fail
                  ELSE Pass(f.dflt)
             set == IF key # "" /\ r.ok THEN 1 ELSE 0
             nxt == [Both(acc, r, Inst(cls, Append(acc.v.a, KV(f.name, r.v))))
                       EXCEPT !.cnt = AddCnt(AddCnt(acc.cnt, r.cnt), set)]
         IN IF nxt.fatal THEN nxt ELSE ValidateFields(cls, fs, j + 1, data, nxt)

\* cls.model_validate(v), and a field of type cls
\* were a Scene instance not kept but validated as raw input is
KeepInstance_but_scenes(cls, v) == v.k = "inst" /\ v.s = cls /\ cls # "Scene"

\* revalidate_instances is "never" (the default): an instance of the class
\* is taken as it is
KeepInstance(cls, v) == v.k = "inst" /\ v.s = cls

ValidateModel(cls, v) ==
    IF KeepInstance(cls, v) THEN Pass(v)
    ELSE LET b == Before(cls, v)
         IN IF ~b.ok THEN b
            ELSE IF cls \in RootModels
            THEN LET r == Validate(RootType(cls), b.v)
                 IN IF ~r.ok THEN r
                    ELSE Ok(Inst(cls, <<KV("root", r.v)>>), Min(r.ex, Strict), r.cnt)
            ELSE IF ~IsDict(b.v) THEN Fail
            ELSE LET r == ValidateFields(cls, Fields(cls), 1, b.v,
                                         Ok(Inst(cls, <<>>), Strict, 0))
                 IN IF ~r.ok THEN [Fail EXCEPT !.fatal = r.fatal]
                    ELSE [r EXCEPT !.v = Inst(cls, r.v.a \o Extras(cls, b.v))]

-----------------------------------------------------------------------------
(* Serialization: what model_dump(by_alias=True) makes of a validated      *)
(* value.  The result of a model_serializer is serialized in turn.         *)

Field(self, name) == self.a[CHOOSE j \in 1..Len(self.a) : self.a[j].s = name /\ self.a[j].i = 0].a[1]

InitInstruction_dump_as_list(self) == Arr(<<Str("init"), Field(self, "status")>>)
NewInstruction_dump_as_list(self) ==
    Arr(<<Str("new"), Field(self, "name"), Field(self, "class_name")>>)
DeleteInstruction_dump_as_list(self) == Arr(<<Str("del"), Field(self, "name")>>)
RenameInstruction_dump_as_list(self) ==
    Arr(<<Str("ren"), Field(self, "name"), Field(self, "new_name")>>)

StartlineEvent_dump_as_list(self) ==
    IF Field(self, "vflag") = Null THEN Arr(<<Str("startline")>>)
    ELSE Arr(<<Str("startline"), Str("vflag"), Field(self, "vflag"), Str("name"),
               Field(self, "name"), Str("text"), Field(self, "text")>>)

\* result.extend([key, value]) for the keys whose value is not None
RECURSIVE ExtendKeys(_, _, _)
ExtendKeys(self, keys, result) ==
    IF keys = <<>> THEN result
    ELSE ExtendKeys(self, Tail1(keys),
                    IF Field(self, keys[1]) # Null
                    THEN result \o <<Str(keys[1]), Field(self, keys[1])>>
                    ELSE result)

EnvUpdateEvent_dump_as_list(self) ==
    Arr(ExtendKeys(self,
                   <<"pretrans", "update", "revpretrans", "revupdate", "wait", "trans",
                     "msgoff">>,
                   <<Str("envupdate")>>))

DelayRunEvent_dump_as_list(self) ==
    Arr(ExtendKeys(self, <<"update", "revupdate", "trans">>,
                   <<Str("delayrun"), Field(self, "label"),
                     Field(self, "delay_event_type")>>))

WaitEvent_dump_as_list(self) == Arr(<<Str("wait"), Str("time"), Field(self, "time")>>)
ScnChartEvent_dump_as_list(self) ==
    Arr(<<Str("scnchart"), Field(self, "action"), Field(self, "name")>>)
VoiceEffectEvent_dump_as_list(self) ==
    Arr(<<Str("voeff"), Field(self, "action"), Field(self, "status")>>)
ChapterEvent_dump_as_list(self) == Arr(<<Str("chapter")>> \o Field(self, "values").a)
MsgOffEvent_dump_as_list(self) == Arr(<<Field(self, "event_type")>>)
\* MesWinChangeEvent.dump_as_list, were the tag written as the field is named
MesWinChangeEvent_dump_field_name(self) ==
    Arr(<<Str("meswinchange"), Str("type"), Field(self, "type")>>)
MesWinChangeEvent_dump_as_list(self) ==
    Arr(<<Str("_meswinchange"), Str("type"), Field(self, "type")>>)
QuickMenuEvent_dump_as_list(self) ==
    Arr(<<Str("quickmenu"), Field(self, "action"), Field(self, "status")>>)
ErEvent_dump_as_list(self) == Arr(<<Str("er")>> \o Field(self, "values").a)
EndRecollectionEvent_dump_as_list(self) == Arr(<<Field(self, "type")>>)
PlayVoiceEvent_dump_as_list(self) ==
    Arr(<<Str("playvoice"), Str("loop"), Field(self, "loop"), Str("name"),
          Field(self, "name"), Str("type"), Field(self, "type"), Str("voice"),
          Field(self, "voice")>>)
StopVoiceEvent_dump_as_list(self) ==
    Arr(<<Str("stopvoice"), Str("name"), Field(self, "name"), Str("type"),
          Field(self, "type")>>)
ExitEvent_dump_as_list(self) ==
    Arr(<<Str("exit"), Str("storage"), Field(self, "storage"), Str("target"),
          Field(self, "target"), Str("eval"), Field(self, "eval")>>)
BeginSkipEvent_dump_as_list(self) == Arr(<<Field(self, "type")>>)
EndSkipEvent_dump_as_list(self) == Arr(<<Field(self, "type")>>)
SysVoiceEvent_dump_as_list(self) ==
    Arr(<<Str("sysvoice"), Str("eyecatch"), Field(self, "eyecatch"), Str("name"),
          Field(self, "name"), Str("chara"), Field(self, "chara")>>)

DataItem_serialize_data_item(self) ==
    Arr(<<Field(self, "name"), Field(self, "class_name"), Field(self, "details")>>)

\* SnapshotPointLine.dump_as_list, were the trailing fields written only
\* when they are set
SnapshotPointLine_dump_set_fields(self) ==
    LET lst == <<Field(self, "index"), Field(self, "text_index_a"),
                 Field(self, "text_index_b"), Field(self, "flag"),
                 Field(self, "original_line")>>
        IsSet(v) == v # Null
    IN IF Field(self, "text_index_b") # Null
       THEN Arr(lst \o SelectSeq(<<Field(self, "voice_tag"), Field(self, "unused_a"),
                                    Field(self, "unused_b")>>, IsSet))
       ELSE Arr(lst)

SnapshotPointLine_dump_as_list(self) ==
    LET lst == <<Field(self, "index"), Field(self, "text_index_a"),
                 Field(self, "text_index_b"), Field(self, "flag"),
                 Field(self, "original_line")>>
    IN IF Field(self, "text_index_b") # Null
       THEN Arr(lst \o <<Field(self, "voice_tag"), Field(self, "unused_a"),
                         Field(self, "unused_b")>>)
       ELSE Arr(lst)

Dialogue_dump_as_list(self) ==
    LET lst == <<Field(self, "display_name"), Field(self, "content")>>
    IN IF Field(self, "length") # Null THEN Arr(Append(lst, Field(self, "length")))
       ELSE Arr(lst)

Text_dump_as_list(self) ==
    Arr(<<Field(self, "character"), Field(self, "dialogues"), Field(self, "voices"),
          Field(self, "value"), Field(self, "snapshot_point")>>)

Scene_dump_without_none(self) ==
    LET keys == <<"firstLine", "jumplabels", "label", "lines", "nexts", "preevals",
                  "postevals", "spCount", "texts", "title", "version">>
        IsSet(key) == Field(self, key) # Null
        kept == SelectSeq(keys, IsSet)
    IN Obj([j \in 1..Len(kept) |-> KV(kept[j], Field(self, kept[j]))])

\* a model without a serializer of its own: its fields under their aliases,
\* then its extra fields
DefaultDump(self) ==
    LET fs == Fields(self.s)
    IN Obj([j \in 1..Len(self.a) |->
              IF j <= Len(fs) THEN KV(fs[j].alias, self.a[j].a[1])
              ELSE KV(self.a[j].s, self.a[j].a[1])])

Serializer(self) ==
    CASE self.s \in RootModels -> Field(self, "root")
      [] self.s = "InitInstruction" -> InitInstruction_dump_as_list(self)
      [] self.s = "NewInstruction" -> NewInstruction_dump_as_list(self)
      [] self.s = "DeleteInstruction" -> DeleteInstruction_dump_as_list(self)
      [] self.s = "RenameInstruction" -> RenameInstruction_dump_as_list(self)
      [] self.s = "StartlineEvent" -> StartlineEvent_dump_as_list(self)
      [] self.s = "EnvUpdateEvent" -> EnvUpdateEvent_dump_as_list(self)
      [] self.s = "DelayRunEvent" -> DelayRunEvent_dump_as_list(self)
      [] self.s = "WaitEvent" -> WaitEvent_dump_as_list(self)
      [] self.s = "ScnChartEvent" -> ScnChartEvent_dump_as_list(self)
      [] self.s = "VoiceEffectEvent" -> VoiceEffectEvent_dump_as_list(self)
      [] self.s = "ChapterEvent" -> ChapterEvent_dump_as_list(self)
      [] self.s = "MsgOffEvent" -> MsgOffEvent_dump_as_list(self)
      [] self.s = "MesWinChangeEvent" -> MesWinChangeEvent_dump_as_list(self)
      [] self.s = "QuickMenuEvent" -> QuickMenuEvent_dump_as_list(self)
      [] self.s = "ErEvent" -> ErEvent_dump_as_list(self)
      [] self.s = "EndRecollectionEvent" -> EndRecollectionEvent_dump_as_list(self)
      [] self.s = "PlayVoiceEvent" -> PlayVoiceEvent_dump_as_list(self)
      [] self.s = "StopVoiceEvent" -> StopVoiceEvent_dump_as_list(self)
      [] self.s = "ExitEvent" -> ExitEvent_dump_as_list(self)
      [] self.s = "BeginSkipEvent" -> BeginSkipEvent_dump_as_list(self)
      [] self.s = "EndSkipEvent" -> EndSkipEvent_dump_as_list(self)
      [] self.s = "SysVoiceEvent" -> SysVoiceEvent_dump_as_list(self)
      [] self.s = "DataItem" -> DataItem_serialize_data_item(self)
      [] self.s = "SnapshotPointLine" -> SnapshotPointLine_dump_as_list(self)
      [] self.s = "Dialogue" -> Dialogue_dump_as_list(self)
      [] self.s = "Text" -> Text_dump_as_list(self)
      [] self.s = "Scene" -> Scene_dump_without_none(self)
      [] OTHER -> DefaultDump(self)

RECURSIVE Dump(_)
Dump(v) ==
    CASE v.k = "inst" -> Dump(Serializer(v))
      [] v.k = "arr" -> Arr([j \in 1..Len(v.a) |-> Dump(v.a[j])])
      [] v.k = "obj" -> Obj([j \in 1..Len(v.a) |-> KV(v.a[j].s, Dump(v.a[j].a[1]))])
      [] OTHER -> v

-----------------------------------------------------------------------------
(* The inputs: value trees of the shapes the codec is given *)

MaxArgs == 3
MaxUpdateLen == 2
MaxEventLen == 10
MaxLines == 1
MaxScenes == 2

SeqsUpTo(S, n) == UNION {[1..m -> S] : m \in 0..n}

\* seq cut or padded with null to n elements
Resize(seq, n) == [j \in 1..n |-> IF j <= Len(seq) THEN seq[j] ELSE Null]

ImageFileMin == Obj(<<KV("file", Str("bg01"))>>)
RedrawMin == Obj(<<KV("disp", Num(2)), KV("imageFile", ImageFileMin)>>)
\* a stage that carries its required keys only
StageMin ==
    Obj(<<KV("class", Str("stage")), KV("name", Str("bg")), KV("redraw", RedrawMin),
          KV("showmode", Num(3))>>)
\* a stage that carries every declared key, at every level
StageFull ==
    Obj(<<KV("action", Null), KV("class", Str("stage")), KV("link", Str("")),
          KV("name", Str("bg")),
          KV("redraw",
             Obj(<<KV("disp", Num(2)),
                   KV("imageFile",
                      Obj(<<KV("file", Str("bg01")), KV("options", Null),
                            KV("redraw", Null)>>)),
                   KV("posName", Null)>>)),
          KV("showmode", Num(3)), KV("trans", Null), KV("type", Null)>>)
\* a stage without its required redraw
StageNoRedraw ==
    Obj(<<KV("class", Str("stage")), KV("name", Str("bg")), KV("showmode", Num(3))>>)
\* every declared key of a stage, and two keys that are not declared
StageExtra == Obj(StageFull.a \o <<KV("zoom", Num(2)), KV("alpha", Num(1))>>)
FixCaptionMin ==
    Obj(<<KV("class", Str("fixcaption")), KV("name", Str("cap")), KV("showmode", Num(1))>>)
FixCaptionExtra == Obj(FixCaptionMin.a \o <<KV("zoom", Num(2))>>)
SEExtra == Obj(<<KV("name", Str("se01")), KV("volume", Num(3)), KV("pan", Num(0))>>)
Widget == Obj(<<KV("class", Str("newwidget")), KV("name", Str("x")), KV("foo", Num(1))>>)
WidgetNoName == Obj(<<KV("class", Str("newwidget")), KV("foo", Num(1))>>)
TransformMin == Obj(<<KV("time", Num(300))>>)
WaitObj ==
    Obj(<<KV("list", Arr(<<Obj(<<KV("mode", Num(0)), KV("name", Str("bg"))>>), Null>>))>>)

InstructionTags == {"init", "new", "del", "ren"}
InstructionArrays ==
    {Arr(<<Str(tag)>> \o args) :
       tag \in InstructionTags \cup {"mov"},
       args \in SeqsUpTo({Num(1), Str("a"), Str("1")}, MaxArgs)}
    \cup {Arr(<<Str(tag), Str("a"), Str("b"), Obj(<<KV("layer", Num(1))>>)>>) :
            tag \in {"new", "ren"}}

UpdatePool ==
    {Arr(<<Str("init"), Num(1)>>), Arr(<<Str("new"), Str("a"), Str("stage")>>),
     Arr(<<Str("del"), Str("a")>>), Arr(<<Str("ren"), Str("a"), Str("b")>>),
     Arr(<<Str("mov"), Str("a")>>), Arr(<<Str("del")>>),
     StageMin, StageFull, Widget, WidgetNoName}

UpdateLists == {Arr(items) : items \in SeqsUpTo(UpdatePool, MaxUpdateLen)}

EnvUpdateArrays ==
    {Arr(<<Str("envupdate"), Str("update"), u>>) : u \in UpdateLists}
    \cup {Arr(<<Str("envupdate"), Str("update"), Arr(<<>>), Str("revupdate"), u>>) :
            u \in UpdateLists}
    \cup {Arr(<<Str("envupdate"), Str(key), u, Str("update"), Arr(<<>>)>>) :
            key \in {"pretrans", "revpretrans"}, u \in UpdateLists}
    \cup {Arr(<<Str("envupdate"), Str("update"), Arr(<<Arr(<<Str("init"), Num(1)>>)>>)>>
              \o rest) :
            rest \in {<<Str("wait"), WaitObj>>, <<Str("trans"), TransformMin>>,
                      <<Str("msgoff"), Num(1)>>,
                      <<Str("msgoff"), Num(0), Str("trans"), TransformMin,
                        Str("wait"), WaitObj>>,
                      <<Str("later"), Num(1)>>, <<Str("trans"), Null>>,
                      <<Str("wait"), Null, Str("msgoff"), Num(1)>>}}

StartlineArrays ==
    {Arr(<<Str("startline"), Str(k1), a, Str(k2), b, Str(k3), c>>) :
       k1 \in {"vflag", "flag"}, k2 \in {"name", "speaker"}, k3 \in {"text", "txt"},
       a \in {Null, Num(0), Num(2)}, b \in {Null, Str("Yuki")}, c \in {Null, Num(1)}}

EventTags == DOMAIN event_map
UnknownTags == {"zzzfuturetag", "Startline"}

\* a well-formed array for every tag
Canon(tag) ==
    CASE tag = "startline" ->
           <<Str(tag), Str("vflag"), Num(2), Str("name"), Str("Yuki"), Str("text"), Num(1)>>
      [] tag = "envupdate" ->
           <<Str(tag), Str("update"), Arr(<<>>), Str("msgoff"), Num(0), Str("trans"),
             TransformMin, Str("wait"), WaitObj>>
      [] tag = "delayrun" ->
           <<Str(tag), Str("vl1"), Str("envupdate"), Str("update"), Arr(<<StageMin>>),
             Str("revupdate"), Arr(<<StageFull>>), Str("trans"), TransformMin>>
      [] tag = "wait" -> <<Str(tag), Str("time"), Num(300)>>
      [] tag = "scnchart" -> <<Str(tag), Str("enter"), Str("chart")>>
      [] tag = "voeff" -> <<Str(tag), Str("clear"), Str("true")>>
      [] tag = "chapter" -> <<Str(tag), Str("1"), Num(1)>>
      [] tag = "msgoff" -> <<Str(tag)>>
      [] tag = "_meswinchange" -> <<Str(tag), Str("type"), Str("normal")>>
      [] tag = "quickmenu" -> <<Str(tag), Str("fadein"), Str("true")>>
      [] tag = "er" -> <<Str(tag), Str("x"), Num(1)>>
      [] tag = "endrecollection" -> <<Str(tag)>>
      [] tag = "playvoice" ->
           <<Str(tag), Str("loop"), Num(1), Str("name"), Str("Yuki"), Str("type"), Num(2),
             Str("voice"), Str("yuk001")>>
      [] tag = "stopvoice" -> <<Str(tag), Str("name"), Str("Yuki"), Str("type"), Num(2)>>
      [] tag = "exit" ->
           <<Str(tag), Str("storage"), Str("a.ks"), Str("target"), Str("*end"), Str("eval"),
             Str("kag.isRecollection")>>
      [] tag = "beginskip" -> <<Str(tag)>>
      [] tag = "endskip" -> <<Str(tag)>>
      [] tag = "sysvoice" ->
           <<Str(tag), Str("eyecatch"), Str("true"), Str("name"), Str("title"), Str("chara"),
             Str("kag")>>
      [] OTHER -> <<Str(tag), Num(1), Num(2), Arr(<<Num(1)>>), Widget>>

ArityArrays ==
    {Arr(Resize(Canon(tag), n)) : tag \in EventTags \cup UnknownTags, n \in 1..MaxEventLen}

\* envupdate and delayrun arrays with a stage that lacks its redraw
MissingKeyArrays ==
    {Arr(<<Str("envupdate"), Str("update"), Arr(<<StageNoRedraw>>)>>),
     Arr(<<Str("envupdate"), Str("update"), Arr(<<>>), Str("revupdate"),
           Arr(<<StageNoRedraw>>)>>)}
    \cup {Arr(<<Str("delayrun"), Str("vl1"), Str("envupdate"), Str("update"), Arr(<<u>>),
                Str("revupdate"), Arr(<<r>>)>>) :
            u, r \in {StageMin, StageNoRedraw}}

\* delayrun arrays: the type at element 2, the pairs in either order, trans
DelayRunArrays ==
    {Arr(<<Str("delayrun"), Str("vl1"), Str(type)>> \o pairs \o rest) :
       type \in {"envupdate", "other"},
       pairs \in {<<Str("update"), Arr(<<>>), Str("revupdate"), Arr(<<StageFull>>)>>,
                  <<Str("revupdate"), Arr(<<StageFull>>), Str("update"), Arr(<<>>)>>},
       rest \in {<<>>, <<Str("trans"), TransformMin>>, <<Str("trans"), Null>>}}

\* the key names that the encoding of a keyed event writes
KeyNames(tag) ==
    CASE tag = "wait" -> <<"time">>
      [] tag = "_meswinchange" -> <<"type">>
      [] tag = "playvoice" -> <<"loop", "name", "type", "voice">>
      [] tag = "stopvoice" -> <<"name", "type">>
      [] tag = "exit" -> <<"storage", "target", "eval">>
      [] tag = "sysvoice" -> <<"eyecatch", "name", "chara">>

KeyedTags == {"wait", "_meswinchange", "playvoice", "stopvoice", "exit", "sysvoice"}

\* keyed events with another token at one key-name position
KeyedArrays ==
    {Arr([n \in 1..Len(Canon(tag)) |-> IF n = 2 * k THEN token ELSE Canon(tag)[n]]) :
       tag \in KeyedTags, k \in 1..4, token \in {Str("zz"), Num(1), Null}}

EventInputs ==
    ArityArrays \cup StartlineArrays \cup EnvUpdateArrays \cup MissingKeyArrays
    \cup DelayRunArrays \cup KeyedArrays

SnapshotPointMin ==
    Obj(<<KV("data", Arr(<<>>)), KV("env", Obj(<<KV("name", Str("env"))>>)),
          KV("phonechat_showing", Num(0))>>)

\* every declared key of a snapshot point, and a key that is not declared
SnapshotPointExtra ==
    Obj(<<KV("_meswinchange", Null)>> \o SnapshotPointMin.a
        \o <<KV("scnchart", Null), KV("showdate", Null), KV("bgcolor", Num(0))>>)

SnapshotPointLineArrays ==
    {Arr(Resize(<<Num(3), a, b, flag, Num(40), vt, ua, Null>>, n)) :
       a \in {Num(12)}, b \in {Null, Num(7)}, flag \in {Null, Num(1)},
       vt \in {Null, Num(2)}, ua \in {Null, Str("u")}, n \in 4..9}

\* values that are no integer, no string and no array
OtherShapes ==
    {Null, Bool(TRUE), Float(1, ""), Float(1, "5"), Obj(<<>>), Obj(<<KV("a", Num(1))>>)}

LineInputs ==
    SnapshotPointLineArrays
    \cup {Num(5), Str("bgm01"), Str("1"), Arr(<<>>), Arr(<<Null, Num(1)>>),
          Arr(<<Num(3), Str("1"), Null, Null, Num(40)>>)}
    \cup {Arr(<<Num(3), sp, Null, Null, Num(40)>>) :
            sp \in {SnapshotPointMin, SnapshotPointExtra}}
    \cup ArityArrays
    \cup {Arr(<<Str("envupdate"), Str("update"), Arr(<<u>>)>>) : u \in UpdatePool}
    \cup OtherShapes
    \cup {Arr(<<x, Num(12), Null, Null, Num(40)>>) : x \in OtherShapes \cup {Arr(<<>>)}}

DataItemInputs ==
    {Arr(<<Str("x"), Str(cls), d>>) :
       cls \in {"stage", "newwidget", "se"},
       d \in {StageMin, StageFull, StageNoRedraw, Widget, WidgetNoName}}
    \cup {Arr(<<Str("x"), Str("stage")>>), Arr(<<Str("x"), Str("stage"), StageExtra>>),
          Arr(<<Str("x"), Str("se"), SEExtra>>),
          Arr(<<Str("x"), Str("fixcaption"), FixCaptionMin>>),
          Arr(<<Str("x"), Str("fixcaption"), FixCaptionExtra>>)}

\* the lines of the documents
DocLines ==
    {Arr(<<Str("envupdate"), Str("update"),
           Arr(<<Arr(<<Str("new"), Str("bg"), Str("stage")>>), StageMin>>)>>),
     Arr(<<Str("envupdate"), Str("update"), Arr(<<Arr(<<Str("mov"), Str("a")>>)>>)>>),
     Arr(<<Str("zzzfuturetag"), Num(1), Num(2)>>)}

SceneObj(lines) ==
    Obj(<<KV("firstLine", Num(1)), KV("label", Str("*s1")), KV("lines", Arr(lines)),
          KV("nexts",
             Arr(<<Obj(<<KV("storage", Str("a.ks")), KV("target", Str("*s2")),
                         KV("type", Num(0))>>)>>)),
          KV("spCount", Num(1)), KV("title", Str("")), KV("version", Num(1))>>)

ScnObj(scenes) ==
    Obj(<<KV("hash", Str("h")), KV("languages", Arr(<<Str("en"), Str("cn")>>)),
          KV("llmap",
             Arr(<<Obj(<<KV("*s1", Arr(<<Num(7), Num(10)>>)),
                         KV("name", Str("a_en.ks"))>>)>>)),
          KV("name", Str("a.ks")), KV("outlines", Arr(<<>>)), KV("scenes", Arr(scenes))>>)

ScnInputs ==
    {ScnObj(scenes) :
       scenes \in UNION {[1..m -> {SceneObj(ls) : ls \in SeqsUpTo(DocLines, MaxLines)}] :
                           m \in 1..MaxScenes}}

\* a text [character, dialogues, voices, value, snapshot point]
TextMin ==
    Arr(<<Null, Arr(<<Arr(<<Null, Str("Hi"), Num(2)>>)>>), Null, Num(1), SnapshotPointMin>>)

\* the optional keys of a scene, each with a value
OptionalFull ==
    <<KV("jumplabels", Obj(<<KV("*a", Num(3))>>)),
      KV("preevals", Arr(<<Arr(<<Str("f.x"), Num(1)>>), Str("f.y = 1")>>)),
      KV("postevals", Arr(<<>>)), KV("texts", Arr(<<TextMin>>))>>
\* optional keys of a scene that are carried with null
OptionalNull == <<KV("jumplabels", Null), KV("texts", Null)>>

SceneWith(optional, lines) == Obj(SceneObj(lines).a \o optional)

\* lines of a scene: an envupdate with a pair of an undeclared key, a
\* mapping, a wait that is too short, and the empty array
OddLines ==
    {Arr(<<Str("envupdate"), Str("update"), Arr(<<Arr(<<Str("init"), Num(1)>>)>>),
           Str("later"), Num(1)>>),
     Obj(<<KV("a", Num(1))>>), Arr(<<Str("wait"), Str("time")>>), Arr(<<>>)}

SceneFixtures ==
    {SceneWith(OptionalFull, <<Num(5), Str("bgm01")>>),
     SceneWith(OptionalNull, <<Num(5), Str("bgm01")>>)}
    \cup {SceneWith(<<>>, <<Num(5), line>>) : line \in OddLines}

\* documents of one scene each
ScnFixtures == {ScnObj(<<scene>>) : scene \in SceneFixtures}

\* the documents that workers decode: MaxScenes scenes of MaxLines lines
\* each, but for one scene, which may be a scene of two lines with its
\* optional keys (with values or null), with a wait that is too short or
\* with an unregistered instruction, or a scene of three lines
ParLines ==
    <<Arr(<<Str("envupdate"), Str("update"),
            Arr(<<Arr(<<Str("new"), Str("bg"), Str("stage")>>), StageMin>>)>>),
      Arr(<<Str("zzzfuturetag"), Num(1), Num(2)>>)>>

ParScene == SceneObj([l \in 1..MaxLines |-> ParLines[1 + (l % 2)]])

ParScenes ==
    {ParScene, SceneWith(OptionalFull, <<Num(5), Str("bgm01")>>),
     SceneWith(<<>>, <<Num(5), Arr(<<Str("wait"), Str("time")>>)>>),
     SceneWith(<<>>,
               <<Arr(<<Str("envupdate"), Str("update"),
                       Arr(<<Arr(<<Str("mov"), Str("a")>>)>>)>>),
                 Str("bgm01")>>),
     SceneWith(OptionalNull, <<Num(5), Str("bgm01")>>),
     SceneObj(<<Num(5), Arr(<<Str("startline")>>),
                Arr(<<Num(3), SnapshotPointMin, Null, Null, Num(40)>>)>>)}

ParDocs ==
    {ScnObj([j \in 1..MaxScenes |-> IF j = k THEN scene ELSE ParScene]) :
       k \in 1..MaxScenes, scene \in ParScenes}

Inputs ==
    ({"Instruction"} \X InstructionArrays)
    \cup ({"Event"} \X EventInputs)
    \cup ({"Line"} \X LineInputs)
    \cup ({"DataItem"} \X DataItemInputs)
    \cup ({"Scn"} \X (ScnInputs \cup ScnFixtures))

-----------------------------------------------------------------------------
(* The state machine: one value is decoded, and what decoded is encoded *)

Init ==
    /\ \E p \in Inputs : entry = p[1] /\ input = p[2]
    /\ decoded = Null
    /\ output = Null
    /\ pc = "start"

Finish(r) ==
    /\ decoded' = IF r.ok THEN r.v ELSE Null
    /\ pc' = IF r.ok THEN "decoded" ELSE IF r.fatal THEN "raised" ELSE "failed"
    /\ UNCHANGED <<entry, input, output>>

\* instruction_map[item[0]](item)
DecodeInstruction ==
    /\ pc = "start" /\ entry = "Instruction"
    /\ Finish(InstructionCall(input))

\* Event.model_validate(value)
DecodeEvent ==
    /\ pc = "start" /\ entry = "Event"
    /\ Finish(ValidateModel("Event", input))

\* Line.model_validate(value)
DecodeLine ==
    /\ pc = "start" /\ entry = "Line"
    /\ Finish(ValidateModel("Line", input))

\* DataItem.model_validate(value)
DecodeDataItem ==
    /\ pc = "start" /\ entry = "DataItem"
    /\ Finish(ValidateModel("DataItem", input))

\* Scn.model_validate(value)
DecodeScn ==
    /\ pc = "start" /\ entry = "Scn"
    /\ Finish(ValidateModel("Scn", input))

\* model_dump() of what was decoded
Encode ==
    /\ pc = "decoded"
    /\ output' = Dump(decoded)
    /\ pc' = "encoded"
    /\ UNCHANGED <<entry, input, decoded>>

Next ==
    \/ DecodeInstruction
    \/ DecodeEvent
    \/ DecodeLine
    \/ DecodeDataItem
    \/ DecodeScn
    \/ Encode

Spec == Init /\ [][Next]_vars

-----------------------------------------------------------------------------
(* Fan-out and fan-in: workers decode the lines and the scenes of a        *)
(* document one at a time, in any order; decoded holds the document with   *)
(* the instances decoded so far in place of their inputs, and when every   *)
(* scene is an instance the document itself is validated.                  *)

\* the object o with the value of key replaced
Put(o, key, val) ==
    Obj([n \in 1..Len(o.a) |-> IF o.a[n].s = key THEN KV(key, val) ELSE o.a[n]])

\* the array with element j replaced
PutAt(arr, j, val) == Arr([n \in 1..Len(arr.a) |-> IF n = j THEN val ELSE arr.a[n]])

ScenesOf(doc) == Get(doc, "scenes")
LinesOf(scene) == Get(scene, "lines")

ParInit ==
    /\ entry = "Par"
    /\ input \in ParDocs
    /\ decoded = input
    /\ output = Null
    /\ pc = "start"

\* the worker's result r takes the place of its input, or ends the decode
Collect(r, doc) ==
    /\ decoded' = IF r.ok THEN doc ELSE Null
    /\ pc' = IF r.ok THEN pc ELSE IF r.fatal THEN "raised" ELSE "failed"
    /\ UNCHANGED <<entry, input, output>>

\* Line.model_validate(line) of any line not yet decoded
WorkerDecodeLine ==
    /\ pc = "start" /\ entry = "Par"
    /\ \E j \in 1..Len(ScenesOf(decoded).a) :
          LET scene == ScenesOf(decoded).a[j]
          IN /\ IsDict(scene)
             /\ \E l \in 1..Len(LinesOf(scene).a) :
                   LET r == ValidateModel("Line", LinesOf(scene).a[l])
                   IN /\ LinesOf(scene).a[l].k # "inst"
                      /\ Collect(r, Put(decoded, "scenes",
                                        PutAt(ScenesOf(decoded), j,
                                              Put(scene, "lines",
                                                  PutAt(LinesOf(scene), l, r.v)))))

\* Scene.model_validate(scene) of any scene not yet decoded
WorkerDecodeScene ==
    /\ pc = "start" /\ entry = "Par"
    /\ \E j \in 1..Len(ScenesOf(decoded).a) :
          LET r == ValidateModel("Scene", ScenesOf(decoded).a[j])
          IN /\ IsDict(ScenesOf(decoded).a[j])
             /\ Collect(r, Put(decoded, "scenes", PutAt(ScenesOf(decoded), j, r.v)))

\* Scn.model_validate of the document with its decoded scenes
Reassemble ==
    /\ pc = "start" /\ entry = "Par"
    /\ \A j \in 1..Len(ScenesOf(decoded).a) : ScenesOf(decoded).a[j].k = "inst"
    /\ Finish(ValidateModel("Scn", decoded))

ParNext ==
    \/ WorkerDecodeLine
    \/ WorkerDecodeScene
    \/ Reassemble
    \/ Encode

ParSpec == ParInit /\ [][ParNext]_vars

-----------------------------------------------------------------------------
(* The claims *)

Failed == pc \in {"failed", "raised"}
Succeeded == pc \in {"decoded", "encoded"}

\* the tag of an array, "" when it has none
TagOf(v) == IF IsList(v) /\ Len(v.a) > 0 /\ IsStr(v.a[1]) THEN v.a[1].s ELSE ""

\* the lines of all the scenes of a document
DocLinesOf(doc) ==
    UNION {Range(Get(Get(doc, "scenes").a[j], "lines").a) :
             j \in 1..Len(Get(doc, "scenes").a)}

\* C1: every document decodes, and its encoding is structurally equal to it
\* (objects compared key by key, arrays element by element, in order), also
\* when an envupdate has an update list mixing instructions and objects.
C1_DocumentRoundTrip ==
    (entry = "Scn" /\ pc = "encoded") => SameValue(output, input)

\* C2: a snapshot-point line of 5 or 8 elements is encoded with the length
\* and the elements it had: the three trailing fields are written exactly
\* when the input was the 8-element form, whatever text_index_b holds.
C2_ConditionalPresence ==
    (entry = "Line" /\ pc = "encoded" /\ IsList(input) /\ Len(input.a) \in {5, 8}
       /\ IsInstanceInt(input.a[1]))
        => (Len(output.a) = Len(input.a) /\ output = input)

IsStartline7(v) ==
    /\ TagOf(v) = "startline" /\ Len(v.a) = 7
    /\ v.a[2] = Str("vflag") /\ v.a[4] = Str("name") /\ v.a[6] = Str("text")
    /\ v.a[3].k \in {"null", "int"} /\ v.a[5].k \in {"null", "str"}
    /\ v.a[7].k \in {"null", "int"}

\* C3: ["startline"] decodes to the variant with vflag, name and text absent
\* and encodes to ["startline"]; a 7-element startline whose three values are
\* of the declared kinds, null included, decodes and encodes to the same
\* 7-element array.
C3_StartlineRoundTrip ==
    /\ (entry = "Event" /\ input = Arr(<<Str("startline")>>))
         => /\ ~Failed
            /\ Succeeded =>
                 /\ decoded.a[1].a[1].s = "StartlineEvent"
                 /\ \A f \in {"vflag", "name", "text"} : Field(decoded.a[1].a[1], f) = Null
            /\ pc = "encoded" => output = input
    /\ (entry = "Event" /\ IsStartline7(input))
         => /\ ~Failed
            /\ pc = "encoded" => output = input

IsUnknownTagArray(v) == TagOf(v) # "" /\ TagOf(v) \notin DOMAIN event_map

\* C4: an array whose element 0 is a string that is no registered event tag
\* decodes without error, as an event and as a line, to the fallback variant
\* holding the whole array, and encodes to an array equal to the input; a
\* document with such a line fails to decode only for another line.
C4_UnknownTagFallback ==
    /\ (entry = "Event" /\ IsUnknownTagArray(input))
         => /\ ~Failed
            /\ Succeeded => decoded = Inst("Event", <<KV("root", input)>>)
            /\ pc = "encoded" => output = input
    /\ (entry = "Line" /\ IsUnknownTagArray(input))
         => /\ ~Failed
            /\ Succeeded =>
                 decoded = Inst("Line", <<KV("root", Inst("Event", <<KV("root", input)>>))>>)
            /\ pc = "encoded" => output = input
    /\ (entry = "Scn" /\ Failed) => \E line \in DocLinesOf(input) : ~IsUnknownTagArray(line)

C4_Witness ==
    /\ entry = "Event" /\ pc = "encoded"
    /\ input = Arr(<<Str("zzzfuturetag"), Num(1), Num(2)>>)
    /\ output = input

\* an object whose own class is none of the ten registered classes
IsUnknownClassObject(v) ==
    IsDict(v) /\ HasKey(v, "class") /\ ~InMap(details_map, Get(v, "class"))

\* C5: a snapshot object of an unregistered class, as the details of a
\* DataItem or as an entry of an envupdate's update list, decodes without
\* error to the generic map holding the object unchanged, never to a named
\* variant, and is encoded identical to the input, key order included.
C5_UnknownClassFallback ==
    /\ (entry = "DataItem" /\ IsList(input) /\ Len(input.a) = 3
          /\ input.a[2] = Str("newwidget") /\ IsUnknownClassObject(input.a[3]))
         => /\ ~Failed
            /\ Succeeded =>
                 Field(decoded, "details") =
                     Inst("DataItemDetails", <<KV("root", input.a[3])>>)
            /\ pc = "encoded" => output = input
    /\ (entry = "Event" /\ TagOf(input) = "envupdate" /\ Len(input.a) = 3
          /\ input.a[2] = Str("update") /\ IsList(input.a[3])
          /\ \A j \in 1..Len(input.a[3].a) : IsUnknownClassObject(input.a[3].a[j]))
         => /\ ~Failed
            /\ pc = "encoded" => output = input

\* the lengths an array of the tag may have
PermittedLengths ==
    [playvoice |-> {9}, wait |-> {3}, scnchart |-> {3}, voeff |-> {3},
     _meswinchange |-> {3}, quickmenu |-> {3}, stopvoice |-> {5}, exit |-> {7},
     sysvoice |-> {7}, msgoff |-> {1}, endrecollection |-> {1}, beginskip |-> {1},
     endskip |-> {1}, startline |-> {1, 7}, delayrun |-> {7, 9}]

\* envupdate is the tag and whole key/value pairs, chapter and er the tag
\* and one value at least
ArityViolation(v) ==
    \/ TagOf(v) \in DOMAIN PermittedLengths /\ Len(v.a) \notin PermittedLengths[TagOf(v)]
    \/ TagOf(v) = "envupdate" /\ (Len(v.a) < 3 \/ Len(v.a) % 2 = 0)
    \/ TagOf(v) \in {"chapter", "er"} /\ Len(v.a) < 2

\* C6: an array that carries a registered tag and has a length outside the
\* lengths of the tag's variant (for each of the 18 tags) fails to decode, as
\* an event and as a line; it is never decoded to the fallback variant or to
\* anything else.
C6_ArityViolationFails ==
    (entry \in {"Event", "Line"} /\ ArityViolation(input) /\ pc # "start") => Failed

C6_Witness ==
    /\ entry = "Event" /\ TagOf(input) = "playvoice" /\ Len(input.a) = 8
    /\ pc = "failed" /\ decoded = Null

Arity == [init |-> 2, new |-> 3, del |-> 2, ren |-> 3]

\* C7: an instruction array decodes only when its length is the arity of its
\* tag; then the fields are the elements at the fixed positions, and encoding
\* it gives [tag, fields...] equal to the input.
C7_InstructionArity ==
    (entry = "Instruction" /\ TagOf(input) \in DOMAIN Arity)
        => /\ Succeeded => Len(input.a) = Arity[TagOf(input)]
           /\ (Len(input.a) # Arity[TagOf(input)] /\ pc # "start") => Failed
           /\ Succeeded => \A j \in 2..Len(input.a) : decoded.a[j].a[1] = input.a[j]
           /\ pc = "encoded" => output = input

ListKeys == {Str("pretrans"), Str("update"), Str("revpretrans"), Str("revupdate")}

\* the key positions of an envupdate array
KeyPositions(v) == {j \in 2..(Len(v.a) - 1) : j % 2 = 0}

IsUnknownInstruction(x) ==
    IsList(x) /\ Len(x.a) > 0 /\ ~InMap(instruction_map, x.a[1])

HasUnknownInstruction(v) ==
    /\ TagOf(v) = "envupdate"
    /\ \E j \in KeyPositions(v) :
          /\ v.a[j] \in ListKeys /\ IsList(v.a[j + 1])
          /\ \E x \in Range(v.a[j + 1].a) : IsUnknownInstruction(x)

\* C8: an envupdate with an array, in its pretrans, update, revpretrans or
\* revupdate list, whose element 0 is not init, new, del or ren fails to
\* decode, and so do the line and the document that hold it.
C8_UnknownInstructionFails ==
    /\ (entry \in {"Event", "Line"} /\ HasUnknownInstruction(input) /\ pc # "start")
         => Failed
    /\ (entry = "Scn" /\ pc # "start"
          /\ \E line \in DocLinesOf(input) : HasUnknownInstruction(line))
         => Failed

C8_Witness ==
    /\ entry = "Event" /\ pc = "raised"
    /\ input = Arr(<<Str("envupdate"), Str("update"),
                     Arr(<<StageFull, Arr(<<Str("mov"), Str("a")>>)>>)>>)

\* C9: a 7-element startline decodes only when elements 1, 3 and 5 are
\* "vflag", "name" and "text"; another token there is an error; the encoding
\* has the three literals at positions 1, 3 and 5.
C9_StartlineKeyNames ==
    (entry = "Event" /\ TagOf(input) = "startline" /\ Len(input.a) = 7)
        => /\ Succeeded =>
                (input.a[2] = Str("vflag") /\ input.a[4] = Str("name")
                   /\ input.a[6] = Str("text"))
           /\ (pc = "encoded" /\ Len(output.a) = 7) =>
                (output.a[2] = Str("vflag") /\ output.a[4] = Str("name")
                   /\ output.a[6] = Str("text"))

\* element m of the list decoded for element m of the input list
DecodedAs(x, y) ==
    /\ IsList(x) =>
         /\ y.k = "inst" /\ y.s = "Instruction"
         /\ y.a[1].a[1].k = "inst" /\ y.a[1].a[1].s = instruction_map[x.a[1].s]
         /\ y = Inst("Instruction", <<KV("root", InstructionCall(x).v)>>)
    /\ IsDict(x) =>
         /\ y.k = "inst" /\ y.s = "DataItemDetails"
         /\ y = ValidateModel("DataItemDetails", x).v

\* C10: in the update and revupdate lists of a decoded envupdate, every array
\* is an Instruction of the class its own element 0 selects, every object is
\* snapshot-object details, and the list has the length and the order of the
\* input list.
C10_PerElementDisambiguation ==
    (entry = "Event" /\ TagOf(input) = "envupdate" /\ Succeeded)
        => \A j \in KeyPositions(input) :
              (input.a[j] \in {Str("update"), Str("revupdate")} /\ IsList(input.a[j + 1]))
                => LET want == input.a[j + 1].a
                       got == Field(decoded.a[1].a[1], input.a[j].s)
                   IN /\ IsList(got) /\ Len(got.a) = Len(want)
                      /\ \A m \in 1..Len(want) : DecodedAs(want[m], got.a[m])

C10_Witness ==
    /\ entry = "Event" /\ pc = "decoded"
    /\ input = Arr(<<Str("envupdate"), Str("update"),
                     Arr(<<StageFull, Arr(<<Str("del"), Str("a")>>)>>)>>)
    /\ Field(decoded.a[1].a[1], "update").a[1].s = "DataItemDetails"
    /\ Field(decoded.a[1].a[1], "update").a[2].s = "Instruction"

KeyOrder == <<"pretrans", "update", "revpretrans", "revupdate", "wait", "trans", "msgoff">>

KeyIndex(key) == CHOOSE n \in 1..Len(KeyOrder) : Str(KeyOrder[n]) = key

\* the keys at the key positions of an array of key/value pairs
CarriedKeys(v) == {v.a[j] : j \in KeyPositions(v)}

\* C11: the encoding of an envupdate is the tag and then key/value pairs,
\* the keys in the order pretrans, update, revpretrans, revupdate, wait,
\* trans, msgoff and each at most once; a key is written exactly when the
\* input carried it.
C11_EnvUpdateLayout ==
    (entry = "Event" /\ TagOf(input) = "envupdate" /\ pc = "encoded")
        => /\ IsList(output) /\ Len(output.a) % 2 = 1 /\ output.a[1] = Str("envupdate")
           /\ CarriedKeys(output) \subseteq {Str(KeyOrder[n]) : n \in 1..Len(KeyOrder)}
           /\ \A j, m \in KeyPositions(output) :
                 j < m => KeyIndex(output.a[j]) < KeyIndex(output.a[m])
           /\ \A n \in 1..Len(KeyOrder) :
                 Str(KeyOrder[n]) \in CarriedKeys(output)
                     <=> Str(KeyOrder[n]) \in CarriedKeys(input)

\* the extra fields of an instance, as an object
ExtrasOf(inst) ==
    LET IsExtra(e) == e.i = 1
        x == SelectSeq(inst.a, IsExtra)
    IN Obj([j \in 1..Len(x) |-> KV(x[j].s, x[j].a[1])])

\* C12: a new or ren array with an object after its positional fields
\* decodes, the keys of the object being the extra fields of the
\* instruction, and is encoded with the extra fields as a trailing object;
\* without the object no trailing object is written.
C12_InstructionExtras ==
    (entry = "Instruction" /\ TagOf(input) \in {"new", "ren"})
        => /\ (Len(input.a) = 4 /\ IsDict(input.a[4]) /\ pc # "start")
                => /\ ~Failed
                   /\ Succeeded => ExtrasOf(decoded) = input.a[4]
                   /\ pc = "encoded" => output = input
           /\ (Len(input.a) = 3 /\ pc = "encoded") => Len(output.a) = 3

\* the keys an object-shaped record declares, as the input names them
KnownKeys(cls) == {Fields(cls)[j].alias : j \in 1..Len(Fields(cls))}

\* the entries of an object whose keys the class does not declare
ExtraEntries(o, cls) ==
    LET IsExtra(e) == e.s \notin KnownKeys(cls)
    IN SelectSeq(o.a, IsExtra)

\* the encoding out keeps the extra entries of the input object in, in
\* their order and after the declared keys, and has no key in did not have
Preserves(in, out, cls) ==
    /\ IsDict(out)
    /\ ExtraEntries(out, cls) = ExtraEntries(in, cls)
    /\ \A j, m \in 1..Len(out.a) :
          (j < m /\ out.a[j].s \notin KnownKeys(cls)) => out.a[m].s \notin KnownKeys(cls)
    /\ Keys(out) \subseteq Keys(in)

\* C13: a snapshot object of a registered class, and a snapshot point, is
\* encoded with every key its class does not declare, value unchanged, in
\* the input's order after the declared keys, and with no declared optional
\* key that the input did not carry.
C13_ExtraFieldPreservation ==
    /\ (/\ entry = "DataItem" /\ pc = "encoded"
        /\ InMap(details_map, input.a[2]) /\ IsDict(input.a[3]))
           => Preserves(input.a[3], output.a[3], details_map[input.a[2].s])
    /\ (/\ entry = "Line" /\ pc = "encoded" /\ IsList(input) /\ Len(input.a) >= 2
        /\ input.a[1].k = "int" /\ IsDict(input.a[2]))
           => Preserves(input.a[2], output.a[2], "SnapshotPoint")

\* the keys a class requires, as the input names them
RequiredKeys(cls) ==
    {Fields(cls)[j].alias : j \in {m \in 1..Len(Fields(cls)) : Fields(cls)[m].req}}

\* an object that lacks a key the registered class cls requires
LacksRequiredKey(o, cls) ==
    IsDict(o) /\ InMap(details_map, cls) /\ ~(RequiredKeys(details_map[cls.s]) \subseteq Keys(o))

\* the entries of the update and revupdate lists of an envupdate or delayrun
UpdateEntries(v) ==
    UNION {Range(v.a[j + 1].a) :
             j \in {m \in KeyPositions(v) :
                      /\ TagOf(v) = "delayrun" => m >= 4
                      /\ v.a[m] \in {Str("update"), Str("revupdate")}
                      /\ IsList(v.a[m + 1])}}

\* C14: a snapshot object of a registered class that lacks a key its class
\* requires is a decode error, in a data item [name, class, details] and
\* among the update and revupdate entries of an envupdate and of a delayrun.
C14_RequiredKeyValidation ==
    /\ (/\ entry = "DataItem" /\ pc # "start" /\ Len(input.a) = 3
        /\ LacksRequiredKey(input.a[3], input.a[2]))
           => Failed
    /\ (/\ entry = "Event" /\ pc # "start" /\ TagOf(input) \in {"envupdate", "delayrun"}
        /\ \E o \in UpdateEntries(input) :
              IsDict(o) /\ HasKey(o, "class") /\ LacksRequiredKey(o, Get(o, "class")))
           => Failed

\* the outcome of a decode step is the result r
DecodedTo(r) ==
    /\ Succeeded <=> r.ok
    /\ Succeeded => decoded = Inst("Line", <<KV("root", r.v)>>)

\* C15: a line is classified by the kind of its value: a bare integer is a
\* TextIndexLine and a bare string a ResourceLine, an array that starts with
\* a string is decoded as the Event codec decodes it, and an array that
\* starts with an integer as a SnapshotPointLine, whose element 1 is a
\* SnapshotPoint when it was an object and an integer otherwise; the
\* encoding of a line has the kind of the input.
C15_LineClassification ==
    (entry = "Line" /\ pc # "start")
        => /\ input.k \in {"int", "str"} => DecodedTo(Pass(input))
           /\ (IsList(input) /\ Len(input.a) > 0 /\ IsStr(input.a[1]))
                 => DecodedTo(ValidateModel("Event", input))
           /\ (IsList(input) /\ Len(input.a) > 0 /\ input.a[1].k = "int")
                 => /\ DecodedTo(ValidateModel("SnapshotPointLine", input))
                    /\ Succeeded =>
                         LET a == Field(Field(decoded, "root"), "text_index_a")
                         IN IF IsDict(input.a[2])
                            THEN a.k = "inst" /\ a.s = "SnapshotPoint"
                            ELSE a.k = "int"
           /\ (input.k \in {"int", "str"}
                 \/ (IsList(input) /\ Len(input.a) > 0 /\ input.a[1].k \in {"int", "str"}))
                 => (pc = "encoded" => output.k = input.k)

C15_Witness ==
    /\ entry = "Line" /\ pc = "encoded"
    /\ IsList(input) /\ input.a[1].k = "int" /\ IsDict(input.a[2])
    /\ Field(decoded, "root").s = "SnapshotPointLine"

\* a value of none of the four line shapes
Unrecognized(v) ==
    /\ v.k \notin {"int", "str"}
    /\ ~(IsList(v) /\ Len(v.a) > 0 /\ v.a[1].k \in {"int", "str"})

\* C16: a value that is no bare integer, no bare string and no array that
\* starts with a string or an integer (null, a boolean, a float, an object,
\* the empty array, an array that starts with null, a float, an array or an
\* object) fails to decode as a line.
C16_UnrecognizedLineFails ==
    (entry = "Line" /\ pc # "start" /\ Unrecognized(input)) => Failed

OptionalSceneKeys == {"jumplabels", "preevals", "postevals", "texts"}
RequiredSceneKeys == {"firstLine", "label", "lines", "nexts", "spCount", "title", "version"}

\* the encoding out of the scene in has the optional keys of in and no
\* others, no null value, and the required keys with the values of in
SceneKeysKept(in, out) ==
    /\ \A key \in OptionalSceneKeys : HasKey(out, key) <=> HasKey(in, key)
    /\ \A j \in 1..Len(out.a) : out.a[j].a[1] # Null
    /\ \A key \in RequiredSceneKeys :
          HasKey(out, key) /\ SameValue(Get(out, key), Get(in, key))

\* C17: an encoded scene has each of jumplabels, preevals, postevals and
\* texts exactly when the input scene had it, has no key with a null value,
\* and has the seven required keys with their input values.
C17_SceneOptionalFields ==
    (entry = "Scn" /\ pc = "encoded")
        => \A j \in 1..Len(Get(input, "scenes").a) :
              SceneKeysKept(Get(input, "scenes").a[j], Get(output, "scenes").a[j])

IsDelayRun == Succeeded /\ Field(decoded, "root").s = "DelayRunEvent"

\* C19: an event decoded as a DelayRun has the delay_event_type "envupdate"
\* and is encoded as ["delayrun", label, "envupdate"], then the pairs update,
\* revupdate and, exactly when the input carried it, trans, in that order; a
\* delayrun array with another element 2 is not decoded as a DelayRun.
C19_DelayRunType ==
    (entry = "Event" /\ IsDelayRun)
        => /\ Field(Field(decoded, "root"), "delay_event_type") = Str("envupdate")
           /\ input.a[3] = Str("envupdate")
           /\ pc = "encoded"
                => /\ SubSeq(output.a, 1, 3)
                        = <<Str("delayrun"), input.a[2], Str("envupdate")>>
                   /\ [j \in 1..((Len(output.a) - 3) \div 2) |-> output.a[2 + 2 * j]]
                        = <<Str("update"), Str("revupdate")>>
                          \o (IF Str("trans") \in CarriedKeys(input)
                              THEN <<Str("trans")>> ELSE <<>>)
                   /\ Len(output.a) % 2 = 1

\* every element, key/value pair and object key of the value in is in out
RECURSIVE Covers(_, _)
Covers(in, out) ==
    IF in.k # out.k THEN FALSE
    ELSE IF in.k = "arr"
    THEN /\ Len(in.a) = Len(out.a)
         /\ \A j \in 1..Len(in.a) : Covers(in.a[j], out.a[j])
    ELSE IF in.k = "obj"
    THEN \A key \in Keys(in) : HasKey(out, key) /\ Covers(Get(in, key), Get(out, key))
    ELSE in = out

\* C20: the decode of a document ends in an error or in a document; it ends
\* in an error when a line of the document is of no line shape or fails to
\* decode on its own; and the encoding of a decoded document has every
\* element, key/value pair and object key of the input.
C20_AllOrNothing ==
    (entry = "Scn" /\ pc # "start")
        => /\ \/ Failed /\ decoded = Null
              \/ Succeeded /\ decoded.k = "inst" /\ decoded.s = "Scn"
           /\ (\E line \in DocLinesOf(input) :
                  Unrecognized(line) \/ ~ValidateModel("Line", line).ok)
                 => Failed
           /\ pc = "encoded" => Covers(input, output)

\* what decoding the document in one pass gives
Sequential == ValidateModel("Scn", input)

\* C21: decoding the lines and the scenes of a document one at a time, in
\* any order, and validating the document of the results gives what
\* decoding the document in one pass gives; on the way every decoded scene
\* and line is what its own input decodes to.
C21_OrderIndependentDecode ==
    entry = "Par"
        => /\ pc # "start" =>
                LET seq == Sequential
                IN /\ Succeeded => seq.ok /\ decoded = seq.v
                   /\ Failed => ~seq.ok
                   /\ pc = "encoded" => output = Dump(seq.v)
           /\ pc = "start" =>
                \A j \in 1..Len(ScenesOf(decoded).a) :
                   LET scene == ScenesOf(decoded).a[j]
                       given == ScenesOf(input).a[j]
                   IN IF scene.k = "inst"
                      THEN scene = ValidateModel("Scene", given).v
                      ELSE \A l \in 1..Len(LinesOf(scene).a) :
                              \/ LinesOf(scene).a[l] = LinesOf(given).a[l]
                              \/ LinesOf(scene).a[l]
                                   = ValidateModel("Line", LinesOf(given).a[l]).v

\* the last scene is decoded before the first, whose second line is decoded
\* before its first
C21_Witness ==
    /\ entry = "Par" /\ pc = "start"
    /\ ScenesOf(decoded).a[Len(ScenesOf(decoded).a)].k = "inst"
    /\ IsDict(ScenesOf(decoded).a[1])
    /\ Len(LinesOf(ScenesOf(decoded).a[1]).a) = 2
    /\ LinesOf(ScenesOf(decoded).a[1]).a[1].k # "inst"
    /\ LinesOf(ScenesOf(decoded).a[1]).a[2].k = "inst"

\* what decoding the encoding once more gives
Again == ValidateModel(entry, output)

WithKeyNames(v) ==
    Arr([n \in 1..Len(v.a) |->
           IF n % 2 = 0 /\ n \div 2 <= Len(KeyNames(TagOf(v)))
           THEN Str(KeyNames(TagOf(v))[n \div 2]) ELSE v.a[n]])

\* a keyed event of the length of its variant
IsKeyedEvent(v) ==
    TagOf(v) \in KeyedTags /\ Len(v.a) = 1 + 2 * Len(KeyNames(TagOf(v)))

====
